---- MODULE Spec2Model ----
(***************************************************************************)
(* Vault access and the session-local directory index of the Cryptomator   *)
(* vault server: the process-backed adapter's mount lifecycle              *)
(* (app/adapters.py, app/process.py), the filesystem primitives of         *)
(* VaultAdapter, and the request handlers of app/main.py that patch or     *)
(* rebuild the per-session index.                                          *)
(*                                                                         *)
(* A path "/a/B" is the sequence of its segments <<"a", "B">>; "/" is <<>>. *)
(* A directory tree is a set of nodes [path, is_dir, size].                *)
(***************************************************************************)
EXTENDS Integers, Sequences, FiniteSets, TLC

\* ------------------------------------------------------------------ bounds
\* Deepest path the vault may hold; requests that would go deeper are not sent.
MaxDepth == 2
\* Longest list of selected paths in one batch move, copy or delete.
MaxBatch == 2
\* Requests handled in one behaviour.
MaxRequests == 3

\* RateLimiter(max_attempts, window_seconds), scaled down.
max_attempts == 2
window_seconds == 2
\* Latest reading of time.time().
MaxTime == 4
\* Calls of RateLimiter.allow in one behaviour.
MaxCalls == 4
\* SessionStore(secret_key, ttl_seconds), scaled down.
ttl_seconds == 2
\* The longest raw path string.
MaxLen == 5
\* The longest "path" query argument and destination entered in a handler.
MaxDirLen == 2
\* The open() calls one worker thread makes.
MaxOpens == 2

\* ------------------------------------------------------------------ values
\* DirEntry.size of a directory (Python None).
NoSize == -1
\* Length of an uploaded stream.
UploadSize == 1

Names == {"a", "B"}

\* str.lower() on the names in use.
lower(s) == IF s = "B" THEN "b" ELSE s

\* Code-point order of the strings in use: "B" < "a" < "b".
StrRank(s) == CASE s = "B" -> 0 [] s = "a" -> 1 [] s = "b" -> 2

RECURSIVE PathsOfLen(_)
PathsOfLen(n) ==
    IF n = 0 THEN {<<>>}
    ELSE {Append(p, x) : p \in PathsOfLen(n - 1), x \in Names}

AllPaths == UNION {PathsOfLen(n) : n \in 0..MaxDepth}

Front(s) == SubSeq(s, 1, Len(s) - 1)
Last(s) == s[Len(s)]
IsPrefix(p, q) == Len(p) <= Len(q) /\ SubSeq(q, 1, Len(p)) = p

\* f"{path.rstrip('/')}/{name}".replace("//", "/") on a normalized path.
JoinPath(path, name) == Append(path, name)

\* ------------------------------------------------------------- DirEntry
DirEntry(name, path, is_dir, size) ==
    [name |-> name, path |-> path, is_dir |-> is_dir, size |-> size]

\* ------------------------------------------------------- tree predicates
Exists(tree, p) == p = <<>> \/ \E n \in tree : n.path = p
IsDir(tree, p) == p = <<>> \/ \E n \in tree : n.path = p /\ n.is_dir
IsFile(tree, p) == \E n \in tree : n.path = p /\ ~n.is_dir
Children(tree, p) == {n \in tree : Len(n.path) = Len(p) + 1 /\ Front(n.path) = p}
Subtree(tree, p) == {n \in tree : IsPrefix(p, n.path)}
ProperPrefixes(p) == {SubSeq(p, 1, k) : k \in 1..(Len(p) - 1)}
DirNode(p) == [path |-> p, is_dir |-> TRUE, size |-> NoSize]
FileNode(p, size) == [path |-> p, is_dir |-> FALSE, size |-> size]
\* The directories mkdir(parents=True) creates above p.
MissingParents(tree, p) == {DirNode(q) : q \in {r \in ProperPrefixes(p) : ~Exists(tree, r)}}

\* ----------------------------------------------------------------- sorting
\* key=lambda item: (not item.is_dir, item.name.lower())
SortKey(e) == <<IF e.is_dir THEN 0 ELSE 1, StrRank(lower(e.name))>>
KeyLeq(k1, k2) == k1[1] < k2[1] \/ (k1[1] = k2[1] /\ k1[2] <= k2[2])

\* One step of a stable sort: e goes after every element whose key is <= its own.
RECURSIVE InsertStable(_, _)
InsertStable(s, e) ==
    IF s = <<>> THEN <<e>>
    ELSE IF KeyLeq(SortKey(Last(s)), SortKey(e)) THEN Append(s, e)
    ELSE Append(InsertStable(Front(s), e), Last(s))

\* list.sort(key=...) / sorted(..., key=...): stable.
RECURSIVE SortEntries(_)
SortEntries(s) ==
    IF s = <<>> THEN <<>> ELSE InsertStable(SortEntries(Front(s)), Last(s))

\* Path.iterdir(): the entries in some order.
RECURSIVE SetToSeq(_)
SetToSeq(S) ==
    IF S = {} THEN <<>>
    ELSE LET x == CHOOSE y \in S : TRUE IN Append(SetToSeq(S \ {x}), x)

\* ---------------------------------------------------------------- list_dir
\* A result is [exc, val]: the exception raised ("none" when it returns) and
\* the value returned.
Ret(exc, val) == [exc |-> exc, val |-> val]

list_dir(tree, relative_path) ==
    IF ~Exists(tree, relative_path) THEN Ret("VaultAdapterError", <<>>)
    ELSE IF IsFile(tree, relative_path) THEN Ret("NotADirectoryError", <<>>)
    ELSE Ret("none",
             SortEntries(SetToSeq(
                 {DirEntry(Last(n.path), n.path, n.is_dir, n.size) :
                      n \in Children(tree, relative_path)})))

\* ------------------------------------------------------------- build_index
EmptyMap == [k \in {} |-> <<>>]
Put(m, k, v) == [x \in (DOMAIN m) \cup {k} |-> IF x = k THEN v ELSE m[x]]
SetDefault(m, k, v) == IF k \in DOMAIN m THEN m ELSE Put(m, k, v)
DirsOf(entries) == SelectSeq(entries, LAMBDA e : e.is_dir)

\* while stack: entry = stack.pop(); ...
RECURSIVE build_loop(_, _, _)
build_loop(tree, index, stack) ==
    IF stack = <<>> THEN Ret("none", index)
    ELSE LET entry == Last(stack)
             children == list_dir(tree, entry.path)
         IN  IF children.exc # "none" THEN Ret(children.exc, index)
             ELSE build_loop(tree, Put(index, entry.path, children.val),
                             Front(stack) \o DirsOf(children.val))

\* The body of build_index's open() block, run on the tree the root shows.
build_index(tree) ==
    LET root_entries == list_dir(tree, <<>>)
    IN  IF root_entries.exc # "none" THEN Ret(root_entries.exc, EmptyMap)
        ELSE build_loop(tree, Put(EmptyMap, <<>>, root_entries.val),
                        DirsOf(root_entries.val))

\* ------------------------------------------------- filesystem primitives
\* Each returns [exc, val] with val the tree afterwards.
write_file(tree, p, size) ==
    IF \E q \in ProperPrefixes(p) : IsFile(tree, q)
    THEN Ret(IF IsFile(tree, Front(p)) THEN "FileExistsError" ELSE "NotADirectoryError", tree)
    ELSE IF IsDir(tree, p)
    THEN Ret("IsADirectoryError", tree \cup MissingParents(tree, p))
    ELSE Ret("none", ({n \in tree : n.path # p} \cup MissingParents(tree, p))
                        \cup {FileNode(p, size)})

make_dir(tree, p) ==
    IF Exists(tree, p) THEN Ret("FileExistsError", tree)
    ELSE IF \E q \in ProperPrefixes(p) : IsFile(tree, q)
    THEN Ret("NotADirectoryError", tree)
    ELSE Ret("none", (tree \cup MissingParents(tree, p)) \cup {DirNode(p)})

\* The nodes of source's subtree, re-rooted under destination_dir.
Rebased(tree, source, destination_dir) ==
    {[n EXCEPT !.path = destination_dir \o SubSeq(n.path, Len(source), Len(n.path))] :
         n \in Subtree(tree, source)}

move_entry(tree, source, destination_dir) ==
    IF ~Exists(tree, source) THEN Ret("VaultAdapterError", tree)
    ELSE IF ~IsDir(tree, destination_dir) THEN Ret("VaultAdapterError", tree)
    ELSE IF Exists(tree, JoinPath(destination_dir, Last(source)))
    THEN Ret("VaultAdapterError", tree)
    ELSE IF IsDir(tree, source) /\ IsPrefix(source, destination_dir)
    THEN Ret("shutil.Error", tree)
    ELSE Ret("none", (tree \ Subtree(tree, source))
                        \cup Rebased(tree, source, destination_dir))

copy_entry(tree, source, destination_dir) ==
    IF ~Exists(tree, source) THEN Ret("VaultAdapterError", tree)
    ELSE IF ~IsDir(tree, destination_dir) THEN Ret("VaultAdapterError", tree)
    ELSE IF Exists(tree, JoinPath(destination_dir, Last(source)))
    THEN Ret("VaultAdapterError", tree)
    \* shutil.copytree into a directory below the source: every level lists
    \* the copy the level above has just made and copies it again, until the
    \* recursion limit. The first directory of that chain stands for it.
    ELSE IF IsDir(tree, source) /\ IsPrefix(source, destination_dir) /\ source # destination_dir
    THEN Ret("RecursionError", tree \cup {DirNode(JoinPath(destination_dir, Last(source)))})
    ELSE Ret("none", tree \cup Rebased(tree, source, destination_dir))

delete_entry(tree, source) ==
    IF ~Exists(tree, source) THEN Ret("VaultAdapterError", tree)
    ELSE Ret("none", tree \ Subtree(tree, source))

\* A batch handler's loop: for source_path in sources: adapter.<op>(root, ...).
\* It stops at the first call that raises; what the earlier calls did stays.
ApplyOne(op, tree, source, destination_dir) ==
    CASE op = "move" -> move_entry(tree, source, destination_dir)
      [] op = "copy" -> copy_entry(tree, source, destination_dir)
      [] op = "delete" -> delete_entry(tree, source)

RECURSIVE batch(_, _, _, _)
batch(op, tree, sources, destination_dir) ==
    IF sources = <<>> THEN Ret("none", tree)
    ELSE LET r == ApplyOne(op, tree, Head(sources), destination_dir)
         IN  IF r.exc # "none" THEN r
             ELSE batch(op, r.val, Tail(sources), destination_dir)

\* ------------------------------------------------------- the session index
\* session.data["index"]: None, or a dict from path to its list of entries.
NoIndex == [present |-> FALSE, map |-> EmptyMap]
SomeIndex(m) == [present |-> TRUE, map |-> m]
\* Python truth of session.data.get("index"): None and {} are both false.
Truthy(idx) == idx.present /\ DOMAIN idx.map # {}
\* index.get(path, [])
Lookup(idx, p) == IF p \in DOMAIN idx.map THEN idx.map[p] ELSE <<>>

\* update_index_after_upload without its entries.sort(...): the new entry stays
\* where append put it.
update_index_after_upload_unsorted(idx, folder_path, filename) ==
    IF ~Truthy(idx) THEN idx
    ELSE LET new_entry == DirEntry(filename, JoinPath(folder_path, filename), FALSE, NoSize)
             entries == Lookup(idx, folder_path)
         IN  SomeIndex(Put(idx.map, folder_path, Append(entries, new_entry)))

update_index_after_upload(idx, folder_path, filename) ==
    IF ~Truthy(idx) THEN idx
    ELSE LET new_entry == DirEntry(filename, JoinPath(folder_path, filename), FALSE, NoSize)
             entries == Lookup(idx, folder_path)
         IN  SomeIndex(Put(idx.map, folder_path, SortEntries(Append(entries, new_entry))))

\* update_index_after_mkdir without entries.sort(...).
update_index_after_mkdir_unsorted(idx, folder_path, folder_name) ==
    IF ~Truthy(idx) THEN idx
    ELSE LET new_entry == DirEntry(folder_name, JoinPath(folder_path, folder_name), TRUE, NoSize)
             entries == Lookup(idx, folder_path)
         IN  SomeIndex(SetDefault(
                 Put(idx.map, folder_path, Append(entries, new_entry)),
                 new_entry.path, <<>>))

update_index_after_mkdir(idx, folder_path, folder_name) ==
    IF ~Truthy(idx) THEN idx
    ELSE LET new_entry == DirEntry(folder_name, JoinPath(folder_path, folder_name), TRUE, NoSize)
             entries == Lookup(idx, folder_path)
         IN  SomeIndex(SetDefault(
                 Put(idx.map, folder_path, SortEntries(Append(entries, new_entry))),
                 new_entry.path, <<>>))

\* refresh_index without the assignment of the rebuilt index: the session keeps
\* the index it had.
refresh_index_keep(idx, exc, built) == idx

\* refresh_index's try/except around build_index: exc and built are what the
\* build_index call raised and returned.
refresh_index(idx, exc, built) ==
    IF exc = "none" THEN SomeIndex(built)
    ELSE IF exc = "VaultAdapterError" THEN NoIndex
    ELSE idx

\* ----------------------------------------------------------------- state
VARIABLES
    vault,      \* the vault's decrypted tree
    cfgCache,   \* config.enable_login_index_cache
    session,    \* the session of the client: [live, index]
    req,        \* the request being handled
    nreq,       \* requests received so far
    phase,      \* which open() block of the handler runs: main, refresh, list
    pc,         \* position: idle, mount, body, unmount, after, done
    mnt,        \* the mount of the current open() block
    exc,        \* the exception leaving the current open() block
    built,      \* what the block's build_index traversal returned
    deleted,    \* the paths the request's delete_entry calls removed
    served,     \* the listing the request's list_entries call returned
    status,     \* how the request ended
    clean,      \* since a login that built the index, only successful upload,
                \* mkdir and list requests ran
    rebuildFailed, \* a rebuild of the session's index could not open the vault
    faulty,     \* some block's body ran on a directory that did not show the
                \* vault, or some umount command failed
    attempts,   \* RateLimiter._attempts: key -> its deque of timestamps
    clock,      \* time.time()
    thr,        \* the worker threads: where each is in the call it makes
    calls,      \* the allow calls completed so far, in lock order
    sessions,   \* SessionStore._sessions: session_id -> SessionData
    touched,    \* session_id -> when it was created or last returned by get
    got,        \* the last SessionStore operation and what it returned
    inp,        \* the arguments of the function under study
    outp,       \* what the function returned or raised
    environ     \* os.environ["CRYPTOMATOR_PASSWORD"] of the server process

\* The request handling state, and the state of the components studied apart.
mainvars == <<vault, cfgCache, session, req, nreq, phase, pc, mnt, exc, built,
              deleted, served, status, clean, rebuildFailed, faulty>>
others == <<attempts, clock, thr, calls, sessions, touched, got, inp, outp, environ>>
vars == <<mainvars, others>>

\* dir: the mount directory exists; unlock: the unlock command ("none",
\* "running", "exit0", "exitErr"); ready: the command made the mount ready;
\* mounted: the directory shows the vault; yielded: open() yielded the root;
\* umounts: calls of the umount command; stray: what was written into the bare
\* directory.
NoMount == [dir |-> FALSE, unlock |-> "none", ready |-> FALSE, mounted |-> FALSE,
            yielded |-> FALSE, umounts |-> 0, stray |-> {}]
\* nsel is the number of selected paths of a batch request; the handler's path,
\* selection and destination are drawn where its open() block uses them.
NoReq == [op |-> "none", path |-> <<>>, name |-> "", nsel |-> 0, hadIndex |-> FALSE]
NotServed == [src |-> "none", entries |-> <<>>]

\* Fixture vaults.
Fixtures ==
    { {},
      {DirNode(<<"a">>), FileNode(<<"a", "B">>, 1), FileNode(<<"B">>, 1)},
      {DirNode(<<"B">>), DirNode(<<"B", "a">>), FileNode(<<"a">>, 1)} }

\* CRYPTOMATOR_PASSWORD is not set.
NoEnv == ""

\* The components studied apart, at rest.
OthersIdle ==
    /\ environ = NoEnv
    /\ attempts = EmptyMap
    /\ clock = 0
    /\ thr = EmptyMap
    /\ calls = <<>>
    /\ sessions = EmptyMap
    /\ touched = EmptyMap
    /\ got = EmptyMap
    /\ inp = EmptyMap
    /\ outp = EmptyMap

Init ==
    /\ vault \in Fixtures
    /\ cfgCache \in BOOLEAN
    /\ session = [live |-> FALSE, index |-> NoIndex]
    /\ req = NoReq
    /\ nreq = 0
    /\ phase = "none"
    /\ pc = "idle"
    /\ mnt = NoMount
    /\ exc = "none"
    /\ built = EmptyMap
    /\ deleted = {}
    /\ served = NotServed
    /\ status = "none"
    /\ clean = FALSE
    /\ rebuildFailed = FALSE
    /\ faulty = FALSE
    /\ OthersIdle

\* ------------------------------------------------------------ CLIVaultAdapter
\* open() up to the Popen of _mount: a fresh private mount directory exists and
\* the unlock command runs.
Opened == [dir |-> TRUE, unlock |-> "running", ready |-> FALSE, mounted |-> FALSE,
           yielded |-> FALSE, umounts |-> 0, stray |-> {}]

\* start_background_process after its sleep: poll() is None while the command
\* runs, else its exit code; only a non-zero exit code raises.
PollRaises(unlock) == unlock = "exitErr"

\* _unmount with the error of rmdir swallowed.
unmount_cleanup_quiet(mounted, ok, tree, stray) ==
    LET stillMounted == mounted /\ ~ok
        shown == IF stillMounted THEN tree ELSE stray
        cleaned == {n \in shown : ~(Len(n.path) = 1 /\ ~n.is_dir)}
        rmdirFails == stillMounted \/ cleaned # {}
    IN  [mounted |-> stillMounted,
         tree |-> IF stillMounted THEN cleaned ELSE tree,
         stray |-> IF stillMounted THEN stray ELSE cleaned,
         dir |-> rmdirFails,
         exc |-> "none"]

\* _unmount after the umount command ran with outcome ok: unlink the files the
\* mount directory shows, then rmdir it.  Returns what is left.
unmount_cleanup(mounted, ok, tree, stray) ==
    LET stillMounted == mounted /\ ~ok
        shown == IF stillMounted THEN tree ELSE stray
        cleaned == {n \in shown : ~(Len(n.path) = 1 /\ ~n.is_dir)}
        rmdirFails == stillMounted \/ cleaned # {}
    IN  [mounted |-> stillMounted,
         tree |-> IF stillMounted THEN cleaned ELSE tree,
         stray |-> IF stillMounted THEN stray ELSE cleaned,
         dir |-> rmdirFails,
         exc |-> IF rmdirFails THEN "OSError" ELSE "none"]

\* ------------------------------------------------------- RateLimiter.allow
\* while attempts and now - attempts[0] > self.window_seconds: attempts.popleft()
RECURSIVE popleft_old(_, _)
popleft_old(dq, now) ==
    IF dq # <<>> /\ now - dq[1] > window_seconds THEN popleft_old(Tail(dq), now)
    ELSE dq

\* allow without the eviction loop.
allow_no_evict(att, key, now) ==
    LET dq == Lookup([map |-> att], key)
    IN  IF Len(dq) >= max_attempts
        THEN [attempts |-> Put(att, key, dq), result |-> FALSE]
        ELSE [attempts |-> Put(att, key, Append(dq, now)), result |-> TRUE]

\* allow recording the attempt before it decides.
allow_record_denied(att, key, now) ==
    LET dq == popleft_old(Lookup([map |-> att], key), now)
    IN  [attempts |-> Put(att, key, Append(dq, now)),
         result |-> Len(dq) < max_attempts]

\* The body of allow's "with self._lock" block, for the now read before it:
\* the dict afterwards and the value returned.
allow(att, key, now) ==
    LET dq == popleft_old(Lookup([map |-> att], key), now)
    IN  IF Len(dq) >= max_attempts
        THEN [attempts |-> Put(att, key, dq), result |-> FALSE]
        ELSE [attempts |-> Put(att, key, Append(dq, now)), result |-> TRUE]

\* ------------------------------------------------------------------ handlers
\* request.remote_addr of the client, and the vault ids of config.vaults.
client_key == "k1"
VaultIds == {"v1"}

\* The except clauses around a handler's open() block.
Caught(op, e) ==
    \/ e = "VaultAdapterError"
    \/ op = "mkdir" /\ e = "FileExistsError"

\* What the body of the current open() block of request r does on the tree the
\* root shows.
BodyOut(view, r, sources, dest) ==
    LET out(e, t, b, l) == [exc |-> e, tree |-> t, built |-> b, listing |-> l]
    IN  IF phase = "list"
        THEN LET x == list_dir(view, r.path) IN out(x.exc, view, EmptyMap, x.val)
        ELSE IF phase = "refresh" \/ (r.op = "login" /\ cfgCache)
        THEN LET x == build_index(view)
             IN  out(x.exc, view, IF x.exc = "none" THEN x.val ELSE EmptyMap, <<>>)
        ELSE IF r.op = "login"
        THEN LET x == list_dir(view, <<>>) IN out(x.exc, view, EmptyMap, <<>>)
        ELSE IF r.op = "upload"
        THEN LET x == write_file(view, JoinPath(r.path, r.name), UploadSize)
             IN  out(x.exc, x.val, EmptyMap, <<>>)
        ELSE IF r.op = "mkdir"
        THEN LET x == make_dir(view, JoinPath(r.path, r.name))
             IN  out(x.exc, x.val, EmptyMap, <<>>)
        ELSE LET x == batch(r.op, view, sources, dest)
             IN  out(x.exc, x.val, EmptyMap, <<>>)

\* Where the handler goes once the current open() block is left.
Continue ==
    LET c(i, l, g, s) == [idx |-> i, live |-> l, go |-> g, st |-> s]
        idx == session.index
    IN  IF phase = "main"
        THEN IF exc # "none"
             THEN c(idx, session.live, "return",
                    IF Caught(req.op, exc) THEN "error" ELSE "unhandled")
             ELSE IF req.op = "login"
             THEN c(IF cfgCache THEN SomeIndex(built) ELSE NoIndex, TRUE, "return", "success")
             ELSE IF req.op = "upload"
             THEN c(update_index_after_upload(idx, req.path, req.name), TRUE,
                    "list_entries", "success")
             ELSE IF req.op = "mkdir"
             THEN c(update_index_after_mkdir(idx, req.path, req.name), TRUE,
                    "list_entries", "success")
             ELSE c(idx, TRUE, IF Truthy(idx) THEN "refresh" ELSE "list_entries", "success")
        ELSE IF phase = "refresh"
        THEN c(refresh_index(idx, exc, built), TRUE,
               IF exc \in {"none", "VaultAdapterError"} THEN "list_entries" ELSE "return",
               IF exc \in {"none", "VaultAdapterError"} THEN "success" ELSE "unhandled")
        ELSE c(idx, TRUE, "return",
               IF exc \in {"none", "VaultAdapterError"} THEN "success" ELSE "unhandled")

\* The response is ready: the last open() block's phase, mount and exception stay
\* visible until Respond.
Finish(st) ==
    /\ pc' = "done"
    /\ status' = st
    /\ built' = EmptyMap

Open(ph) ==
    /\ pc' = "mount"
    /\ phase' = ph
    /\ status' = "pending"
    /\ mnt' = Opened
    /\ exc' = "none"
    /\ built' = EmptyMap

\* list_entries(session, path): from the index when the session holds one, else
\* through a mount of its own.
ListEntries(idx) ==
    IF Truthy(idx)
    THEN /\ served' = [src |-> "index", entries |-> Lookup(idx, req'.path)]
         /\ Finish("success")
         /\ UNCHANGED <<phase, mnt, exc>>
    ELSE /\ served' = NotServed
         /\ Open("list")

Receive(r) ==
    /\ req' = [r EXCEPT !.hadIndex = Truthy(session.index)]
    /\ nreq' = nreq + 1
    /\ UNCHANGED <<vault, cfgCache, session, deleted, rebuildFailed, faulty,
                   clock, thr, calls, sessions, touched, got, inp, outp, environ>>

\* The handler returns before any open() block.
Refuse(r) ==
    /\ Receive(r)
    /\ served' = NotServed
    /\ clean' = FALSE
    /\ Finish("error")
    /\ UNCHANGED <<phase, mnt, exc>>

\* The handler enters its open() block.
Enter(r) ==
    /\ Receive(r)
    /\ served' = NotServed
    /\ clean' = clean
    /\ Open("main")

EarlyReturn(r) == Refuse(r) /\ attempts' = attempts

Start(r) == Enter(r) /\ attempts' = attempts

Ready == pc = "idle" /\ nreq < MaxRequests

\* login_post up to its open() block: the rate limiter, then the vault
\* selection.
Login(vault_id) ==
    /\ Ready
    /\ ~session.live
    /\ LET a == allow(attempts, client_key, clock)
           r == [NoReq EXCEPT !.op = "login"]
       IN  /\ attempts' = a.attempts
           /\ IF ~a.result \/ vault_id \notin VaultIds THEN Refuse(r) ELSE Enter(r)

ListReq(path) ==
    /\ Ready
    /\ session.live
    /\ Receive([NoReq EXCEPT !.op = "list", !.path = path])
    /\ attempts' = attempts
    /\ clean' = clean
    /\ ListEntries(session.index)

Upload(name) ==
    /\ Ready
    /\ session.live
    /\ LET r == [NoReq EXCEPT !.op = "upload", !.name = name]
       IN  IF name = "" THEN EarlyReturn(r) ELSE Start(r)

Mkdir(name) ==
    /\ Ready
    /\ session.live
    /\ LET r == [NoReq EXCEPT !.op = "mkdir", !.name = name]
       IN  IF name \in {"", ".."} THEN EarlyReturn(r) ELSE Start(r)

Batch(op, nsel) ==
    /\ Ready
    /\ session.live
    /\ LET r == [NoReq EXCEPT !.op = op, !.nsel = nsel]
       IN  IF nsel = 0 THEN EarlyReturn(r) ELSE Start(r)

Move(nsel) == Batch("move", nsel)
Copy(nsel) == Batch("copy", nsel)
Delete(nsel) == Batch("delete", nsel)

\* The unlock command, a black box: it makes the mount ready, may then exit 0,
\* or fails before the mount is ready.
UnlockReady ==
    /\ pc \in {"mount", "body"}
    /\ mnt.unlock = "running" /\ ~mnt.mounted
    /\ mnt' = [mnt EXCEPT !.mounted = TRUE, !.ready = TRUE]
    /\ UNCHANGED <<vault, cfgCache, session, req, nreq, phase, pc, exc, built,
                   deleted, served, status, clean, rebuildFailed, faulty, others>>

UnlockExit0 ==
    /\ pc \in {"mount", "body"}
    /\ mnt.unlock = "running" /\ mnt.mounted
    /\ mnt' = [mnt EXCEPT !.unlock = "exit0"]
    /\ UNCHANGED <<vault, cfgCache, session, req, nreq, phase, pc, exc, built,
                   deleted, served, status, clean, rebuildFailed, faulty, others>>

UnlockFail ==
    /\ pc \in {"mount", "body"}
    /\ mnt.unlock = "running" /\ ~mnt.mounted
    /\ mnt' = [mnt EXCEPT !.unlock = "exitErr"]
    /\ UNCHANGED <<vault, cfgCache, session, req, nreq, phase, pc, exc, built,
                   deleted, served, status, clean, rebuildFailed, faulty, others>>

\* _mount returns or raises: open() yields mount_dir, or goes to its finally.
Poll ==
    /\ pc = "mount"
    /\ IF PollRaises(mnt.unlock)
       THEN /\ exc' = "RuntimeError"
            /\ pc' = "unmount"
            /\ mnt' = mnt
       ELSE /\ exc' = "none"
            /\ pc' = "body"
            /\ mnt' = [mnt EXCEPT !.yielded = TRUE]
    /\ UNCHANGED <<vault, cfgCache, session, req, nreq, phase, built, deleted,
                   served, status, clean, rebuildFailed, faulty, others>>

\* The body of the with-block of request r, on the selection and destination
\* of a batch request.
RunBody(r, sources, dest) ==
    /\ LET o == BodyOut(IF mnt.mounted THEN vault ELSE {}, r, sources, dest)
       IN  /\ vault' = IF mnt.mounted THEN o.tree ELSE vault
           /\ mnt' = [mnt EXCEPT !.stray = IF mnt.mounted THEN {} ELSE o.tree]
           /\ exc' = o.exc
           /\ built' = o.built
           /\ served' = IF phase = "list"
                        THEN [src |-> "mount", entries |-> o.listing]
                        ELSE served
           /\ deleted' = IF r.op = "delete" /\ phase = "main" /\ mnt.mounted
                         THEN {q \in AllPaths : Exists(vault, q) /\ ~Exists(o.tree, q)}
                         ELSE deleted
    /\ faulty' = (faulty \/ ~mnt.mounted)
    /\ req' = r
    /\ pc' = "unmount"
    /\ UNCHANGED <<cfgCache, session, nreq, phase, status, clean, rebuildFailed,
                   others>>

Fits(tree) == \A n \in tree : Len(n.path) <= MaxDepth
Selections(n) == [1..n -> AllPaths \ {<<>>}]
CurrentPaths(sources) == {<<>>, Front(sources[1])}

\* login's block, build_index's block of refresh_index, list_entries' block.
Body ==
    /\ pc = "body"
    /\ phase # "main" \/ req.op = "login"
    /\ RunBody(req, <<>>, <<>>)

BodyUpload(path) ==
    /\ pc = "body" /\ phase = "main" /\ req.op \in {"upload", "mkdir"}
    /\ Len(path) < MaxDepth
    /\ RunBody([req EXCEPT !.path = path], <<>>, <<>>)

BodyBatch(path, sources, dest) ==
    /\ pc = "body" /\ phase = "main" /\ req.op \in {"move", "copy", "delete"}
    /\ path \in CurrentPaths(sources)
    /\ req.op = "delete" => dest = <<>>
    /\ req.op = "copy" =>
           \A i \in DOMAIN sources : ~IsPrefix(sources[i], dest) \/ sources[i] = dest
    /\ Fits(batch(req.op, vault, sources, dest).val)
    /\ RunBody([req EXCEPT !.path = path], sources, dest)

\* finally: self._unmount(mount_dir); ok is the umount command's outcome.
Unmount(ok) ==
    /\ pc = "unmount"
    /\ ok => mnt.mounted
    /\ LET u == unmount_cleanup(mnt.mounted, ok, vault, mnt.stray)
       IN  /\ vault' = u.tree
           /\ mnt' = [mnt EXCEPT !.mounted = u.mounted, !.stray = u.stray,
                                 !.dir = u.dir, !.umounts = @ + 1]
           /\ exc' = IF u.exc # "none" THEN u.exc ELSE exc
    /\ faulty' = (faulty \/ (mnt.mounted /\ ~ok))
    /\ pc' = "after"
    /\ UNCHANGED <<cfgCache, session, req, nreq, phase, built, deleted, served,
                   status, clean, rebuildFailed, others>>

\* The handler after its open() block: except clauses, index update, response.
After ==
    /\ pc = "after"
    /\ UNCHANGED <<vault, cfgCache, req, nreq, deleted, faulty, others>>
    /\ LET c == Continue
       IN  /\ session' = [live |-> c.live, index |-> c.idx]
           /\ rebuildFailed' = (rebuildFailed \/ (phase = "refresh" /\ exc = "RuntimeError"))
           /\ clean' = IF c.go = "refresh" \/ (c.go = "list_entries" /\ ~Truthy(c.idx))
                       THEN clean
                       ELSE IF req.op = "login" THEN c.st = "success" /\ cfgCache
                       ELSE /\ clean /\ c.st = "success"
                            /\ req.op \in {"upload", "mkdir", "list"}
           /\ IF c.go = "return"
              THEN /\ served' = IF phase = "list" /\ c.st = "success"
                                THEN served ELSE NotServed
                   /\ Finish(c.st)
                   /\ UNCHANGED <<phase, mnt, exc>>
              ELSE IF c.go = "refresh"
              THEN /\ served' = served
                   /\ Open("refresh")
              ELSE ListEntries(c.idx)

\* The response is sent; the next request may arrive.
Respond ==
    /\ pc = "done"
    /\ pc' = "idle"
    /\ req' = NoReq
    /\ phase' = "none"
    /\ mnt' = NoMount
    /\ exc' = "none"
    /\ deleted' = {}
    /\ served' = NotServed
    /\ status' = "none"
    /\ UNCHANGED <<vault, cfgCache, session, nreq, built, clean, rebuildFailed,
                   faulty, others>>

Next ==
    \/ \E vault_id \in VaultIds \cup {""} : Login(vault_id)
    \/ \E path \in AllPaths : ListReq(path)
    \/ \E name \in Names \cup {""} : Upload(name)
    \/ \E name \in Names \cup {"", ".."} : Mkdir(name)
    \/ \E nsel \in 0..MaxBatch : Move(nsel)
    \/ \E nsel \in 0..MaxBatch : Copy(nsel)
    \/ \E nsel \in 0..MaxBatch : Delete(nsel)
    \/ UnlockReady
    \/ UnlockExit0
    \/ UnlockFail
    \/ Poll
    \/ Body
    \/ \E path \in AllPaths : BodyUpload(path)
    \/ \E sources \in Selections(req.nsel), dest \in AllPaths :
           \E path \in AllPaths : BodyBatch(path, sources, dest)
    \/ \E ok \in BOOLEAN : Unmount(ok)
    \/ After
    \/ Respond

Spec == Init /\ [][Next]_vars

\* --------------------------------------------------------------- RateLimiter
Keys == {"k1", "k2"}
Threads == {1, 2}

\* The request handling state at rest.
MainIdle ==
    /\ vault = {}
    /\ cfgCache = FALSE
    /\ session = [live |-> FALSE, index |-> NoIndex]
    /\ req = NoReq
    /\ nreq = 0
    /\ phase = "none"
    /\ pc = "idle"
    /\ mnt = NoMount
    /\ exc = "none"
    /\ built = EmptyMap
    /\ deleted = {}
    /\ served = NotServed
    /\ status = "none"
    /\ clean = FALSE
    /\ rebuildFailed = FALSE
    /\ faulty = FALSE

IdleThread == [pc |-> "idle", key |-> "", now |-> 0]

InitRate ==
    /\ MainIdle
    /\ environ = NoEnv
    /\ attempts = EmptyMap
    /\ clock = 0
    /\ thr = [t \in Threads |-> IdleThread]
    /\ calls = <<>>
    /\ sessions = EmptyMap
    /\ touched = EmptyMap
    /\ got = EmptyMap
    /\ inp = EmptyMap
    /\ outp = EmptyMap

Started == Len(calls) + Cardinality({t \in Threads : thr[t].pc = "locking"})

\* allow(key) up to the lock: now = time.time().
AllowCall(t, key) ==
    /\ thr[t].pc = "idle"
    /\ Started < MaxCalls
    /\ thr' = [thr EXCEPT ![t] = [pc |-> "locking", key |-> key, now |-> clock]]
    /\ UNCHANGED <<mainvars, environ, attempts, clock, calls, sessions, touched, got, inp, outp>>

\* allow(key) holding the lock, to its return.
AllowLocked(t) ==
    /\ thr[t].pc = "locking"
    /\ LET r == allow(attempts, thr[t].key, thr[t].now)
       IN  /\ attempts' = r.attempts
           /\ calls' = Append(calls, [key |-> thr[t].key, now |-> thr[t].now,
                                      result |-> r.result,
                                      before |-> Lookup([map |-> attempts], thr[t].key)])
    /\ thr' = [thr EXCEPT ![t] = IdleThread]
    /\ UNCHANGED <<mainvars, environ, clock, sessions, touched, got, inp, outp>>

\* Time passes.
Tick ==
    /\ clock < MaxTime
    /\ clock' = clock + 1
    /\ UNCHANGED <<mainvars, environ, attempts, thr, calls, sessions, touched, got, inp, outp>>

NextRate ==
    \/ \E t \in Threads, key \in Keys : AllowCall(t, key)
    \/ \E t \in Threads : AllowLocked(t)
    \/ Tick

SpecRate == InitRate /\ [][NextRate]_vars

\* -------------------------------------------------------------- SessionStore
\* secrets.token_urlsafe(32): the ids in use; create() draws one never drawn.
Ids == {"s1", "s2"}
secret_key == "dev-secret"

\* itsdangerous.Signer: the signature of a payload under the secret key.
Mac(payload) == <<"hmac", secret_key, payload>>
\* A signature no payload has under the secret key.
BadMac == <<"hmac", "other", "">>
\* A cookie value: absent, or payload and signature.
NoToken == [present |-> FALSE, payload |-> "", sig |-> BadMac]
Token(payload, sig) == [present |-> TRUE, payload |-> payload, sig |-> sig]
Tokens == {NoToken} \cup {Token(p, m) : p \in Ids, m \in {Mac(x) : x \in Ids} \cup {BadMac}}

sign(session_id) == Token(session_id, Mac(session_id))

\* Signer.unsign: the payload when the signature is the payload's, else
\* BadSignature.
unsign(signed_token) ==
    IF signed_token.sig = Mac(signed_token.payload)
    THEN Ret("none", signed_token.payload)
    ELSE Ret("BadSignature", "")

SessionData(session_id, created_at, last_access) ==
    [session_id |-> session_id, created_at |-> created_at, last_access |-> last_access]
\* get's return value: None, or the session's record.
Absent == [found |-> FALSE, data |-> SessionData("", 0, 0)]
Found(data) == [found |-> TRUE, data |-> data]
Without(m, k) == [x \in (DOMAIN m) \ {k} |-> m[x]]

_expired(data, now) == now - data.last_access > ttl_seconds

\* get trusting the payload without checking the signature.
get_unverified(sess, signed_token, now) ==
    IF ~signed_token.present THEN [sessions |-> sess, val |-> Absent]
    ELSE LET session_id == signed_token.payload
         IN  IF session_id \notin DOMAIN sess THEN [sessions |-> sess, val |-> Absent]
             ELSE IF _expired(sess[session_id], now)
             THEN [sessions |-> Without(sess, session_id), val |-> Absent]
             ELSE LET data == [sess[session_id] EXCEPT !.last_access = now]
                  IN  [sessions |-> Put(sess, session_id, data), val |-> Found(data)]

\* get without the refresh of last_access.
get_no_refresh(sess, signed_token, now) ==
    IF ~signed_token.present THEN [sessions |-> sess, val |-> Absent]
    ELSE LET u == unsign(signed_token)
             session_id == u.val
         IN  IF u.exc # "none" THEN [sessions |-> sess, val |-> Absent]
             ELSE IF session_id \notin DOMAIN sess THEN [sessions |-> sess, val |-> Absent]
             ELSE IF _expired(sess[session_id], now)
             THEN [sessions |-> Without(sess, session_id), val |-> Absent]
             ELSE [sessions |-> sess, val |-> Found(sess[session_id])]

\* SessionStore.get at time now: the session map afterwards and the value
\* returned.
get(sess, signed_token, now) ==
    IF ~signed_token.present THEN [sessions |-> sess, val |-> Absent]
    ELSE LET u == unsign(signed_token)
             session_id == u.val
         IN  IF u.exc # "none" THEN [sessions |-> sess, val |-> Absent]
             ELSE IF session_id \notin DOMAIN sess THEN [sessions |-> sess, val |-> Absent]
             ELSE IF _expired(sess[session_id], now)
             THEN [sessions |-> Without(sess, session_id), val |-> Absent]
             ELSE LET data == [sess[session_id] EXCEPT !.last_access = now]
                  IN  [sessions |-> Put(sess, session_id, data), val |-> Found(data)]

\* destroy with "del self._sessions[session_id]" in place of pop(..., None).
destroy_del(sess, session_id) ==
    IF session_id \in DOMAIN sess THEN Ret("none", Without(sess, session_id))
    ELSE Ret("KeyError", sess)

\* SessionStore.destroy: self._sessions.pop(session_id, None).
destroy(sess, session_id) == Ret("none", Without(sess, session_id))

InitSession ==
    /\ MainIdle
    /\ environ = NoEnv
    /\ attempts = EmptyMap
    /\ clock = 0
    /\ thr = EmptyMap
    /\ calls = <<>>
    /\ sessions = EmptyMap
    /\ touched = EmptyMap
    /\ got = [op |-> "none", arg |-> NoToken, val |-> Absent, exc |-> "none",
               before |-> EmptyMap]
    /\ inp = EmptyMap
    /\ outp = EmptyMap

\* SessionStore.create
Create(session_id) ==
    /\ session_id \notin DOMAIN touched
    /\ LET data == SessionData(session_id, clock, clock)
       IN  /\ sessions' = Put(sessions, session_id, data)
           /\ got' = [op |-> "create", arg |-> sign(session_id), val |-> Found(data),
                      exc |-> "none", before |-> sessions]
    /\ touched' = Put(touched, session_id, clock)
    /\ UNCHANGED <<mainvars, environ, attempts, clock, thr, calls, inp, outp>>

\* SessionStore.get(signed_token)
Get(signed_token) ==
    /\ LET r == get(sessions, signed_token, clock)
       IN  /\ sessions' = r.sessions
           /\ got' = [op |-> "get", arg |-> signed_token, val |-> r.val,
                      exc |-> "none", before |-> sessions]
           /\ touched' = IF r.val.found THEN Put(touched, r.val.data.session_id, clock)
                         ELSE touched
    /\ UNCHANGED <<mainvars, environ, attempts, clock, thr, calls, inp, outp>>

\* SessionStore.destroy(session_id)
Destroy(session_id) ==
    /\ LET r == destroy(sessions, session_id)
       IN  /\ sessions' = r.val
           /\ got' = [op |-> "destroy", arg |-> sign(session_id), val |-> Absent,
                      exc |-> r.exc, before |-> sessions]
    /\ UNCHANGED <<mainvars, environ, attempts, clock, thr, calls, touched, inp, outp>>

NextSession ==
    \/ \E session_id \in Ids : Create(session_id)
    \/ \E signed_token \in Tokens : Get(signed_token)
    \/ \E session_id \in Ids : Destroy(session_id)
    \/ Tick

SpecSession == InitSession /\ [][NextSession]_vars

\* ------------------------------------------------------------ normalize_path
\* A str is the sequence of its characters.
Chars == {"/", ".", "a"}
RECURSIVE StringsOfLen(_)
StringsOfLen(n) ==
    IF n = 0 THEN {<<>>}
    ELSE {Append(s, c) : s \in StringsOfLen(n - 1), c \in Chars}
Strings == UNION {StringsOfLen(n) : n \in 0..MaxLen}

Slash == <<"/">>
Dot == <<".">>
DotDot == <<".", ".">>

\* str.split("/")
RECURSIVE split(_)
split(s) ==
    IF \A i \in 1..Len(s) : s[i] # "/" THEN <<s>>
    ELSE LET i == CHOOSE k \in 1..Len(s) : s[k] = "/" /\ \A j \in 1..(k - 1) : s[j] # "/"
         IN  <<SubSeq(s, 1, i - 1)>> \o split(SubSeq(s, i + 1, Len(s)))

\* "/".join(parts)
RECURSIVE join(_)
join(parts) ==
    IF parts = <<>> THEN <<>>
    ELSE IF Len(parts) = 1 THEN parts[1]
    ELSE parts[1] \o Slash \o join(Tail(parts))

\* posixpath.splitroot: exactly two leading slashes are kept, any other
\* number of them is one.
posix_root(s) ==
    IF Len(s) >= 2 /\ s[1] = "/" /\ s[2] = "/" /\ (Len(s) = 2 \/ s[3] # "/")
    THEN <<"/", "/">>
    ELSE IF Len(s) >= 1 /\ s[1] = "/" THEN Slash
    ELSE <<>>

IsPart(x) == x # <<>> /\ x # Dot

\* PurePosixPath(s): the root and the parts after it; empty and "." segments
\* are dropped, ".." segments are kept.
PurePosixPath(s) == [root |-> posix_root(s), parts |-> SelectSeq(split(s), IsPart)]

\* str(PurePosixPath)
str(p) ==
    IF p.root = <<>> /\ p.parts = <<>> THEN Dot
    ELSE p.root \o join(p.parts)

\* normalize_path rejecting every path whose text contains two dots in a row.
normalize_path_substring(raw_path) ==
    IF raw_path = <<>> THEN Ret("none", Slash)
    ELSE LET rooted == IF raw_path[1] # "/" THEN Slash \o raw_path ELSE raw_path
             normalized == str(PurePosixPath(rooted))
         IN  IF \E i \in 1..(Len(normalized) - 1) : normalized[i] = "." /\ normalized[i + 1] = "."
             THEN Ret("ValueError", <<>>)
             ELSE Ret("none", normalized)

normalize_path(raw_path) ==
    IF raw_path = <<>> THEN Ret("none", Slash)
    ELSE LET rooted == IF raw_path[1] # "/" THEN Slash \o raw_path ELSE raw_path
             normalized == str(PurePosixPath(rooted))
             parts == PurePosixPath(normalized).parts
         IN  IF \E i \in 1..Len(parts) : parts[i] = DotDot
             THEN Ret("ValueError", <<>>)
             ELSE Ret("none", normalized)

Pending == [exc |-> "pending", val |-> <<>>]

InitNorm ==
    /\ MainIdle
    /\ environ = NoEnv
    /\ attempts = EmptyMap
    /\ clock = 0
    /\ thr = EmptyMap
    /\ calls = <<>>
    /\ sessions = EmptyMap
    /\ touched = EmptyMap
    /\ got = EmptyMap
    /\ inp \in Strings
    /\ outp = Pending

\* One call normalize_path(inp).
Normalize ==
    /\ outp = Pending
    /\ outp' = normalize_path(inp)
    /\ UNCHANGED <<mainvars, environ, attempts, clock, thr, calls, sessions, touched, got, inp>>

NextNorm == Normalize

SpecNorm == InitNorm /\ [][NextNorm]_vars

\* ------------------------------------------------- handlers: the paths passed
\* str.rstrip("/")
RECURSIVE rstrip(_)
rstrip(s) ==
    IF s # <<>> /\ s[Len(s)] = "/" THEN rstrip(SubSeq(s, 1, Len(s) - 1)) ELSE s

\* str.strip(): leading and trailing blanks removed.
RECURSIVE strip(_)
strip(s) ==
    IF s # <<>> /\ s[1] = " " THEN strip(Tail(s))
    ELSE IF s # <<>> /\ s[Len(s)] = " " THEN strip(SubSeq(s, 1, Len(s) - 1))
    ELSE s

\* str.replace("//", "/"): one pass from the left over non-overlapping pairs.
RECURSIVE replace(_)
replace(s) ==
    IF Len(s) < 2 THEN s
    ELSE IF s[1] = "/" /\ s[2] = "/" THEN Slash \o replace(SubSeq(s, 3, Len(s)))
    ELSE <<s[1]>> \o replace(Tail(s))

startswith(s) == s # <<>> /\ s[1] = "/"

DirStrings == UNION {StringsOfLen(n) : n \in 0..MaxDirLen}

\* One call of an adapter primitive and the path arguments it was given.
Call(primitive, paths) == [primitive |-> primitive, paths |-> paths]
\* A handler's outcome: the exception leaving it and the primitives it called.
Handled(e, passed) == [exc |-> e, val |-> passed]

\* hx_list and download: the primitive gets normalize_path(path).
hx_read(primitive, path_arg) ==
    LET path == normalize_path(path_arg)
    IN  IF path.exc # "none" THEN Handled(path.exc, <<>>)
        ELSE Handled("none", <<Call(primitive, <<path.val>>)>>)

hx_upload(path_arg, filename) ==
    LET path == normalize_path(path_arg)
    IN  IF path.exc # "none" THEN Handled(path.exc, <<>>)
        ELSE IF filename = <<>> THEN Handled("none", <<>>)
        ELSE LET target_path == replace(rstrip(path.val) \o Slash \o filename)
             IN  Handled("none", <<Call("write_file", <<target_path>>)>>)

hx_mkdir(path_arg, form_name) ==
    LET path == normalize_path(path_arg)
        folder_name == strip(form_name)
    IN  IF path.exc # "none" THEN Handled(path.exc, <<>>)
        ELSE IF folder_name = <<>> THEN Handled("none", <<>>)
        ELSE IF (\E i \in 1..Len(folder_name) : folder_name[i] = "/") \/ folder_name \in {Dot, DotDot}
        THEN Handled("none", <<>>)
        ELSE LET new_folder_path == replace(rstrip(path.val) \o Slash \o folder_name)
             IN  Handled("none", <<Call("make_dir", <<new_folder_path>>)>>)

\* The expression hx_move, hx_copy and hx_delete normalize for a form value.
Entered(current_path, fragment) ==
    normalize_path(IF startswith(fragment) THEN fragment
                   ELSE rstrip(current_path) \o Slash \o fragment)

\* hx_move and hx_copy with one selected path.
hx_transfer(primitive, path_arg, form_destination, selected) ==
    LET current_path == normalize_path(path_arg)
        destination_input == strip(form_destination)
    IN  IF current_path.exc # "none" THEN Handled(current_path.exc, <<>>)
        ELSE IF destination_input = <<>> THEN Handled("none", <<>>)
        ELSE LET destination_dir == Entered(current_path.val, destination_input)
                 source == Entered(current_path.val, selected)
             IN  IF destination_dir.exc # "none" THEN Handled(destination_dir.exc, <<>>)
                 ELSE IF source.exc # "none" THEN Handled(source.exc, <<>>)
                 ELSE Handled("none", <<Call(primitive, <<source.val, destination_dir.val>>)>>)

\* hx_delete with one selected path.
hx_delete(path_arg, selected) ==
    LET current_path == normalize_path(path_arg)
    IN  IF current_path.exc # "none" THEN Handled(current_path.exc, <<>>)
        ELSE LET source == Entered(current_path.val, selected)
             IN  IF source.exc # "none" THEN Handled(source.exc, <<>>)
                 ELSE Handled("none", <<Call("delete_entry", <<source.val>>)>>)

Received(handler, path, fragment, destination) ==
    [handler |-> handler, path |-> path, fragment |-> fragment, destination |-> destination]

InitGuard ==
    /\ MainIdle
    /\ environ = NoEnv
    /\ attempts = EmptyMap
    /\ clock = 0
    /\ thr = EmptyMap
    /\ calls = <<>>
    /\ sessions = EmptyMap
    /\ touched = EmptyMap
    /\ got = EmptyMap
    /\ inp \in {Received(h, p, <<>>, <<>>) : h \in {"list", "download"}, p \in DirStrings}
             \cup {Received(h, p, f, <<>>) : h \in {"upload", "mkdir", "delete"},
                                             p \in DirStrings, f \in Strings}
             \cup {Received(h, p, f, d) : h \in {"move", "copy"}, p \in DirStrings,
                                          f \in Strings, d \in DirStrings}
    /\ outp = Pending

Handle(result) ==
    /\ outp = Pending
    /\ outp' = result
    /\ UNCHANGED <<mainvars, environ, attempts, clock, thr, calls, sessions, touched, got, inp>>

HxList == inp.handler = "list" /\ Handle(hx_read("list_dir", inp.path))
Download == inp.handler = "download" /\ Handle(hx_read("open_file", inp.path))
HxUpload == inp.handler = "upload" /\ Handle(hx_upload(inp.path, inp.fragment))
HxMkdir == inp.handler = "mkdir" /\ Handle(hx_mkdir(inp.path, inp.fragment))
HxMove ==
    inp.handler = "move" /\ Handle(hx_transfer("move_entry", inp.path, inp.destination, inp.fragment))
HxCopy ==
    inp.handler = "copy" /\ Handle(hx_transfer("copy_entry", inp.path, inp.destination, inp.fragment))
HxDelete == inp.handler = "delete" /\ Handle(hx_delete(inp.path, inp.fragment))

NextGuard ==
    \/ HxList
    \/ Download
    \/ HxUpload
    \/ HxMkdir
    \/ HxMove
    \/ HxCopy
    \/ HxDelete

SpecGuard == InitGuard /\ [][NextGuard]_vars

\* ------------------------------------------------- move_entry and copy_entry
\* Vault trees the two primitives are called on.
EntryFixtures ==
    Fixtures \cup
    { {DirNode(<<"a">>), DirNode(<<"a", "B">>), FileNode(<<"a", "a">>, 1),
       DirNode(<<"B">>), FileNode(<<"B", "a">>, 1)},
      {DirNode(<<"a">>), DirNode(<<"a", "a">>), DirNode(<<"B">>)} }

Transfer(op, tree, source, destination_dir) ==
    [op |-> op, tree |-> tree, source |-> source, destination_dir |-> destination_dir]

InitEntry ==
    /\ MainIdle
    /\ environ = NoEnv
    /\ attempts = EmptyMap
    /\ clock = 0
    /\ thr = EmptyMap
    /\ calls = <<>>
    /\ sessions = EmptyMap
    /\ touched = EmptyMap
    /\ got = EmptyMap
    /\ inp \in {Transfer(op, t, src, d) : op \in {"move", "copy"}, t \in EntryFixtures,
                                          src \in AllPaths \ {<<>>}, d \in AllPaths}
    /\ outp = Pending

\* One call adapter.move_entry(root, source, destination_dir).
MoveEntry ==
    /\ outp = Pending /\ inp.op = "move"
    /\ outp' = move_entry(inp.tree, inp.source, inp.destination_dir)
    /\ UNCHANGED <<mainvars, environ, attempts, clock, thr, calls, sessions, touched, got, inp>>

\* One call adapter.copy_entry(root, source, destination_dir).
CopyEntry ==
    /\ outp = Pending /\ inp.op = "copy"
    /\ outp' = copy_entry(inp.tree, inp.source, inp.destination_dir)
    /\ UNCHANGED <<mainvars, environ, attempts, clock, thr, calls, sessions, touched, got, inp>>

NextEntry == MoveEntry \/ CopyEntry

SpecEntry == InitEntry /\ [][NextEntry]_vars

\* ------------------------------------------------ _mount on worker threads
Passphrases == {"p1", "p2"}

\* A thread between requests; passphrase is its session's, child is the
\* CRYPTOMATOR_PASSWORD its latest unlock subprocess was started with.
Resting(opens) == [pc |-> "idle", passphrase |-> "", child |-> NoEnv, opens |-> opens]

InitEnv ==
    /\ MainIdle
    /\ environ = NoEnv
    /\ attempts = EmptyMap
    /\ clock = 0
    /\ thr = [t \in Threads |-> Resting(0)]
    /\ calls = <<>>
    /\ sessions = EmptyMap
    /\ touched = EmptyMap
    /\ got = EmptyMap
    /\ inp = EmptyMap
    /\ outp = EmptyMap

\* _mount, first statement: os.environ["CRYPTOMATOR_PASSWORD"] = passphrase.
SetEnviron(t, passphrase) ==
    /\ thr[t].pc = "idle" /\ thr[t].opens < MaxOpens
    /\ environ' = passphrase
    /\ thr' = [thr EXCEPT ![t] = [pc |-> "set", passphrase |-> passphrase,
                                  child |-> NoEnv, opens |-> @.opens + 1]]
    /\ UNCHANGED <<mainvars, attempts, clock, calls, sessions, touched, got, inp, outp>>

\* start_background_process: subprocess.Popen(cmd) starts the unlock command
\* with the environment the process has at that moment.
Popen(t) ==
    /\ thr[t].pc = "set"
    /\ thr' = [thr EXCEPT ![t].pc = "spawned", ![t].child = environ]
    /\ UNCHANGED <<mainvars, attempts, clock, calls, sessions, touched, got, inp, outp,
                   environ>>

\* The open() block is left; the thread takes its next request.
Leave(t) ==
    /\ thr[t].pc = "spawned"
    /\ thr' = [thr EXCEPT ![t] = Resting(@.opens)]
    /\ UNCHANGED <<mainvars, attempts, clock, calls, sessions, touched, got, inp, outp,
                   environ>>

NextEnv ==
    \/ \E t \in Threads, passphrase \in Passphrases : SetEnviron(t, passphrase)
    \/ \E t \in Threads : Popen(t)
    \/ \E t \in Threads : Leave(t)

SpecEnv == InitEnv /\ [][NextEnv]_vars

\* ------------------------------------------------------------------ claims
\* The current open() block has been left.
BlockLeft == pc \in {"after", "done"} /\ mnt.unlock # "none"
\* The unlock command of the current block made the mount ready.
UnlockSucceeded == mnt.ready

\* An entry without its size.
Shape(e) == [name |-> e.name, path |-> e.path, is_dir |-> e.is_dir]
Shapes(entries) == [i \in DOMAIN entries |-> Shape(entries[i])]
\* The directories of a tree, the root included.
DirPaths(tree) == {<<>>} \cup {n.path : n \in {m \in tree : m.is_dir}}
\* The index has exactly the tree's directories as keys and, under each key,
\* exactly the tree's children of that directory, each once.
MirrorsTree(idx, tree) ==
    /\ DOMAIN idx.map = DirPaths(tree)
    /\ \A k \in DOMAIN idx.map :
           /\ Len(idx.map[k]) = Cardinality(Children(tree, k))
           /\ {Shape(idx.map[k][i]) : i \in DOMAIN idx.map[k]}
                = {[name |-> Last(n.path), path |-> n.path, is_dir |-> n.is_dir] :
                       n \in Children(tree, k)}
\* Directories first, then by case-insensitive name.
InOrder(e1, e2) ==
    \/ e1.is_dir /\ ~e2.is_dir
    \/ e1.is_dir = e2.is_dir /\ StrRank(lower(e1.name)) <= StrRank(lower(e2.name))
IsSortedListing(entries) ==
    \A i, j \in DOMAIN entries : i < j => InOrder(entries[i], entries[j])
RemoveAt(seq, i) == SubSeq(seq, 1, i - 1) \o SubSeq(seq, i + 1, Len(seq))

\* C1: when the unlock command succeeded, open() yielded the root, and once the
\* block is left the umount command has been invoked exactly once and the mount
\* directory of the block is gone.
C1_Claim ==
    (BlockLeft /\ UnlockSucceeded) =>
        (mnt.yielded /\ mnt.umounts = 1 /\ ~mnt.dir)

\* C2: an unlock command that reports a non-zero exit never has its root
\* yielded; the block is left by an error and its mount directory is removed.
C2_Claim ==
    mnt.unlock = "exitErr" =>
        /\ ~mnt.yielded
        /\ BlockLeft => (exc # "none" /\ ~mnt.dir)

\* C3: while the body of an open() block runs on the yielded root, the unlock
\* command has made the mount ready and has not failed.
C3_Claim ==
    (pc = "body" /\ mnt.yielded) => (mnt.ready /\ mnt.unlock # "exitErr")

\* C4: a request whose open() block was left by a mount failure ends with an
\* error status, not as an unhandled fault.
C4_Claim ==
    (pc = "done" /\ exc = "RuntimeError") => status = "error"

\* C5: when the rebuild after a move, copy or delete could not open the vault the
\* session's index is absent, and from then on every listing comes from a mount.
C5_Claim ==
    /\ (pc = "done" /\ phase = "refresh" /\ exc = "RuntimeError") => ~Truthy(session.index)
    /\ (rebuildFailed /\ served.src # "none") => served.src = "mount"

\* C6: once a request has ended, with success or with an error, the session's
\* index is absent or mirrors the vault's tree.  Stated for the behaviours in
\* which every block ran on a mounted vault and every umount command succeeded.
C6_Claim ==
    (pc = "done" /\ ~faulty /\ session.live /\ Truthy(session.index)) =>
        MirrorsTree(session.index, vault)

\* C7: after login and then only successful upload and mkdir requests, the index
\* has the keys and, by name, path and is_dir, the entries a build_index of the
\* vault returns.  Stated for the behaviours in which every block ran on a
\* mounted vault and every umount command succeeded.
C7_Claim ==
    (pc = "done" /\ clean /\ ~faulty /\ Truthy(session.index)) =>
        LET full == build_index(vault).val
        IN  /\ DOMAIN session.index.map = DOMAIN full
            /\ \A k \in DOMAIN full : Shapes(session.index.map[k]) = Shapes(full[k])

\* C8: the index update after a successful upload(dir, f) adds to dir's listing
\* exactly one entry named f with is_dir = FALSE, leaves the listing sorted
\* (directories first, then case-insensitive name), and changes no other listing.
UploadPatched(old, new, dir, f) ==
    /\ DOMAIN new.map = DOMAIN old.map \cup {dir}
    /\ \A k \in DOMAIN new.map \ {dir} : new.map[k] = old.map[k]
    /\ Len(Lookup(new, dir)) = Len(Lookup(old, dir)) + 1
    /\ \E i \in DOMAIN Lookup(new, dir) :
           /\ Lookup(new, dir)[i].name = f
           /\ ~Lookup(new, dir)[i].is_dir
           /\ RemoveAt(Lookup(new, dir), i) = Lookup(old, dir)
    /\ IsSortedListing(Lookup(new, dir))

C8_Theorem ==
    [][(pc = "after" /\ phase = "main" /\ req.op = "upload" /\ exc = "none"
            /\ Truthy(session.index))
        => UploadPatched(session.index, session'.index, req.path, req.name)]_vars

\* An upload into an indexed session has succeeded and its entry stands before
\* another entry of the listing.
C8_Witness ==
    /\ pc = "done" /\ req.op = "upload" /\ status = "success" /\ req.hadIndex
    /\ ~faulty
    /\ \E i \in DOMAIN Lookup(session.index, req.path) :
           /\ i < Len(Lookup(session.index, req.path))
           /\ Lookup(session.index, req.path)[i].name = req.name
           /\ ~Lookup(session.index, req.path)[i].is_dir

\* C9: after a successful mkdir(dir, sub) in a session holding an index, the
\* index answers the lookup of dir/sub with the empty sequence and lists a
\* directory entry sub under dir, both without a mount.  Stated for the
\* behaviours in which every block ran on a mounted vault and every umount
\* command succeeded.
C9_Claim ==
    (pc = "done" /\ req.op = "mkdir" /\ status = "success" /\ req.hadIndex
        /\ ~faulty) =>
        /\ Truthy(session.index)
        /\ served.src = "index"
        /\ Lookup(session.index, JoinPath(req.path, req.name)) = <<>>
        /\ \E i \in DOMAIN Lookup(session.index, req.path) :
               /\ Lookup(session.index, req.path)[i].name = req.name
               /\ Lookup(session.index, req.path)[i].is_dir

\* C10: after a successful batch delete in a session holding an index, no key
\* and no entry of the index is a deleted path or lies below one.
C10_Theorem ==
    (pc = "done" /\ req.op = "delete" /\ status = "success" /\ req.hadIndex) =>
        \A k \in DOMAIN session.index.map :
            /\ \A d \in deleted : ~IsPrefix(d, k)
            /\ \A i \in DOMAIN session.index.map[k] :
                   \A d \in deleted : ~IsPrefix(d, session.index.map[k][i].path)

\* A successful batch delete removed a directory together with an entry below
\* it, and the rebuilt index still lists something.
C10_Witness ==
    /\ pc = "done" /\ req.op = "delete" /\ status = "success" /\ req.hadIndex
    /\ ~faulty
    /\ \E d, e \in deleted : Len(d) < Len(e) /\ IsPrefix(d, e)
    /\ Truthy(session.index) /\ session.index.map[<<>>] # <<>>

\* The block just left ran build_index (login with the index cache, or
\* refresh_index) and returned.
BuildReturned ==
    /\ pc = "after" /\ exc = "none"
    /\ phase = "refresh" \/ (phase = "main" /\ req.op = "login" /\ cfgCache)

\* C11: a build_index call that returns has mounted once and unmounted, and its
\* index has exactly the vault's directories as keys and under each key the
\* list_dir of that directory (same name, is_dir and size, same order).
C11_Claim ==
    BuildReturned =>
        /\ mnt.umounts = 1 /\ ~mnt.mounted /\ ~mnt.dir
        /\ DOMAIN built = DirPaths(vault)
        /\ \A k \in DOMAIN built : built[k] = list_dir(vault, k).val

\* The completed allow calls for key k, in lock order.
KeyCalls(k) == SelectSeq(calls, LAMBDA c : c.key = k)

\* C12: of the calls allow(k) made from an empty record within one window the
\* first max_attempts return true and every further one false; a call made
\* more than window_seconds after every recorded attempt returns true.
C12_Theorem ==
    \A k \in Keys :
        LET h == KeyCalls(k)
        IN  /\ \A n \in 1..Len(h) :
                   (\A i, j \in 1..n : h[i].now - h[j].now <= window_seconds) =>
                       \A i \in 1..n : h[i].result = (i <= max_attempts)
            /\ \A i \in 1..Len(h) :
                   (\A j \in DOMAIN h[i].before :
                        h[i].now - h[i].before[j] > window_seconds) => h[i].result

\* max_attempts admitted calls and a denied one within a window, then an
\* admitted call after the window has passed.
C12_Witness ==
    \E k \in Keys :
        LET h == KeyCalls(k)
        IN  /\ Len(h) = max_attempts + 2
            /\ \A i \in 1..max_attempts : h[i].result
            /\ ~h[max_attempts + 1].result
            /\ h[max_attempts + 1].now - h[1].now <= window_seconds
            /\ h[max_attempts + 2].result
            /\ Len(h[max_attempts + 2].before) = max_attempts

IsSuffix(t, u) == Len(t) <= Len(u) /\ SubSeq(u, Len(u) - Len(t) + 1, Len(u)) = t
\* Thread t completes an allow call in this step, and the call is denied.
DeniedBy(t) ==
    /\ thr[t].pc = "locking" /\ thr'[t].pc = "idle"
    /\ Len(calls') = Len(calls) + 1
    /\ ~calls'[Len(calls')].result

\* C13: a denied allow(k) appends nothing: the record of k afterwards is what
\* was left of it when the timestamps older than the window were dropped from
\* its front, and the record of every other key is unchanged.
C13_Theorem ==
    [][\A t \in Threads : DeniedBy(t) =>
          LET k == thr[t].key
              old == attempts[k]
              new == attempts'[k]
          IN  /\ k \in DOMAIN attempts
              /\ DOMAIN attempts' = DOMAIN attempts
              /\ \A x \in DOMAIN attempts \ {k} : attempts'[x] = attempts[x]
              /\ IsSuffix(new, old)
              /\ \A i \in 1..(Len(old) - Len(new)) :
                     thr[t].now - old[i] > window_seconds]_vars

\* Some key was denied twice in a row after its record was full, while the
\* other key holds a record.
C13_Witness ==
    \E k \in Keys :
        LET h == KeyCalls(k)
        IN  /\ Len(h) = max_attempts + 2
            /\ ~h[max_attempts + 1].result /\ ~h[max_attempts + 2].result
            /\ h[max_attempts + 2].before = h[max_attempts + 1].before
            /\ k \in DOMAIN attempts /\ Len(attempts[k]) = max_attempts

\* C14: under any interleaving of allow calls every record holds at most
\* max_attempts timestamps in non-decreasing order, and once a call for a key
\* has completed, no timestamp older than the window (as of that call's now)
\* is left in the key's record.
C14_Claim ==
    /\ \A k \in DOMAIN attempts :
           /\ Len(attempts[k]) <= max_attempts
           /\ \A i, j \in DOMAIN attempts[k] : i < j => attempts[k][i] <= attempts[k][j]
    /\ calls # <<>> =>
           LET c == calls[Len(calls)]
           IN  \A i \in DOMAIN attempts[c.key] :
                   c.now - attempts[c.key][i] <= window_seconds

\* C15: get returns a session only for the token that is exactly the signature
\* of the id of a session in the store, and that session is the one returned;
\* for a missing, altered or unknown token it returns absent, without raising.
C15_Theorem ==
    got.op = "get" =>
        /\ got.exc = "none"
        /\ got.val.found =>
              /\ got.val.data.session_id \in DOMAIN got.before
              /\ got.arg = sign(got.val.data.session_id)
        /\ got.arg \notin {sign(id) : id \in DOMAIN got.before} => ~got.val.found

\* Two sessions are stored and the token pairs the id of one with the
\* signature of the other: get returned absent.
C15_Witness ==
    /\ got.op = "get"
    /\ Ids \subseteq DOMAIN got.before
    /\ got.arg.present
    /\ got.arg.sig # Mac(got.arg.payload)
    /\ got.arg.sig \in {Mac(id) : id \in Ids}
    /\ ~got.val.found

\* The latest step was get with the token of a session in the store.
GotStored ==
    /\ got.op = "get"
    /\ \E id \in DOMAIN got.before : got.arg = sign(id)

\* C16: a session's idle time runs from its creation or its latest successful
\* get; get of a stored session succeeds and sets last_access to the time of
\* the call when the idle time is at most the TTL, and returns absent and
\* removes the record when it is more; only that lookup or destroy removes a
\* record.
C16_Theorem ==
    [][/\ GotStored' /\ got' # got =>
            LET id == got'.arg.payload
                idle == clock - touched[id]
            IN  /\ idle <= ttl_seconds =>
                      /\ got'.val.found
                      /\ got'.val.data.session_id = id
                      /\ id \in DOMAIN sessions'
                      /\ sessions'[id].last_access = clock
                /\ idle > ttl_seconds =>
                      /\ ~got'.val.found
                      /\ id \notin DOMAIN sessions'
       /\ \A id \in (DOMAIN sessions) \ DOMAIN sessions' :
            \/ got'.op = "destroy" /\ got'.arg = sign(id)
            \/ /\ got'.op = "get" /\ got'.arg = sign(id)
               /\ clock - touched[id] > ttl_seconds
      ]_vars

\* A session idle for more than the TTL was still stored when get was called
\* with its token; get returned absent and removed it.
C16_Witness ==
    /\ GotStored
    /\ clock - got.before[got.arg.payload].last_access > ttl_seconds
    /\ got.before[got.arg.payload].last_access > got.before[got.arg.payload].created_at
    /\ ~got.val.found
    /\ got.arg.payload \notin DOMAIN sessions

\* C17: destroy never raises, removes the session of that id and no other,
\* changes nothing when called again, and get with the token of a destroyed
\* session returns absent.
C17_Theorem ==
    /\ got.op = "destroy" =>
          /\ got.exc = "none"
          /\ DOMAIN sessions = (DOMAIN got.before) \ {got.arg.payload}
          /\ \A id \in DOMAIN sessions : sessions[id] = got.before[id]
          /\ destroy(sessions, got.arg.payload) = Ret("none", sessions)
    /\ \A id \in (DOMAIN touched) \ DOMAIN sessions :
          ~get(sessions, sign(id), clock).val.found

\* destroy was called for a session that had been destroyed before, while
\* another session was stored.
C17_Witness ==
    /\ got.op = "destroy"
    /\ got.arg.payload \in DOMAIN touched
    /\ got.arg.payload \notin DOMAIN got.before
    /\ clock - touched[got.arg.payload] <= ttl_seconds
    /\ sessions # EmptyMap

\* The segments of a path string: its maximal runs of characters other than
\* "/", without the empty ones and without ".".
Segments(s) ==
    {x \in {SubSeq(s, i, j) : i \in {k \in 1..Len(s) : k = 1 \/ s[k - 1] = "/"},
                               j \in {k \in 1..Len(s) : k = Len(s) \/ s[k + 1] = "/"}} :
        x # <<>> /\ x # Dot /\ \A k \in 1..Len(x) : x[k] # "/"}

\* A path string in normalized absolute form: it starts with "/", and after
\* its root it has no empty segment, no "." segment and no trailing "/".
IsNormalized(s) ==
    /\ Len(s) >= 1 /\ s[1] = "/"
    /\ s \in {Slash, <<"/", "/">>} \/
          /\ s[Len(s)] # "/"
          /\ \A i \in 2..(Len(s) - 1) : ~(s[i] = "/" /\ s[i + 1] = "/")
          /\ Dot \notin {SubSeq(s, i, j) : i \in {k \in 1..Len(s) : k > 1 /\ s[k - 1] = "/"},
                                            j \in {k \in 1..Len(s) : k = Len(s) \/ s[k + 1] = "/"}}

\* C18: normalize_path rejects a path exactly when one of its segments is "..";
\* otherwise it returns the path in normalized absolute form, with the same
\* segments in the same order, and that form is a fixed point.
C18_Theorem ==
    outp # Pending =>
        /\ outp.exc = "ValueError" <=> DotDot \in Segments(inp)
        /\ outp.exc \in {"none", "ValueError"}
        /\ outp.exc = "none" =>
              /\ IsNormalized(outp.val)
              /\ Segments(outp.val) = Segments(inp)
              /\ SelectSeq(split(outp.val), IsPart) = SelectSeq(split(inp), IsPart)
              /\ normalize_path(outp.val) = outp

\* A relative path with a segment that starts with two dots was accepted, and
\* the path returned is more than the input behind a "/".
C18_Witness ==
    /\ outp.exc = "none"
    /\ Len(inp) >= 1 /\ inp[1] # "/"
    /\ \E x \in Segments(inp) : Len(x) = 3 /\ x[1] = "." /\ x[2] = "."
    /\ outp.val # Slash \o inp

\* C19: no path with a ".." segment is passed to an adapter primitive: a
\* handler whose entered fragment, joined to the current directory, contains
\* ".." calls no primitive.
C19_Claim ==
    outp # Pending =>
        \A i \in 1..Len(outp.val) : \A j \in 1..Len(outp.val[i].paths) :
            DotDot \notin Segments(outp.val[i].paths[j])

\* C20: move_entry and copy_entry fail when the source is missing, the
\* destination is not a directory or the destination has an entry of the
\* source's name; a call that fails leaves the tree as it was, and no call
\* changes or removes an entry other than the moved ones.
C20_Claim ==
    outp # Pending =>
        LET t == inp.tree
            target == JoinPath(inp.destination_dir, Last(inp.source))
        IN  /\ ( \/ ~Exists(t, inp.source)
                 \/ ~IsDir(t, inp.destination_dir)
                 \/ Exists(t, target) ) => outp.exc # "none"
            /\ outp.exc # "none" => outp.val = t
            /\ \A n \in t : n \in outp.val \/ (inp.op = "move" /\ IsPrefix(inp.source, n.path))

\* C21: a failure of the teardown of an open() block that had yielded a ready
\* mount is not escalated: the umount command ran once, and no error of the
\* cleanup leaves the block.
C21_Claim ==
    (pc = "after" /\ mnt.ready /\ mnt.yielded) =>
        /\ mnt.umounts = 1
        /\ exc # "OSError"

\* C22: a session comes to exist only at the end of a login request that the
\* rate limiter admitted and whose open() block succeeded on the opened vault;
\* a login the rate limiter denies mounts nothing and creates no session.
C22_Claim ==
    [][/\ (~session.live /\ session'.live) =>
            /\ req.op = "login" /\ phase = "main"
            /\ mnt.yielded /\ exc = "none"
            /\ mnt.ready
       /\ (pc = "idle" /\ req'.op = "login" /\ ~allow(attempts, client_key, clock).result) =>
            /\ pc' = "done" /\ mnt' = NoMount
            /\ ~session'.live
      ]_vars

\* C23: in every state, the entries the session's index holds under every key
\* are in order: directories first, then by case-insensitive name.
C23_Theorem ==
    \A k \in DOMAIN session.index.map : IsSortedListing(session.index.map[k])

\* A successful mkdir in a session holding an index put the new directory in
\* front of a file the listing already held.
C23_Witness ==
    /\ pc = "done" /\ req.op = "mkdir" /\ status = "success" /\ req.hadIndex
    /\ ~faulty
    /\ LET entries == Lookup(session.index, req.path)
       IN  /\ Len(entries) >= 2
           /\ entries[1].name = req.name /\ entries[1].is_dir
           /\ ~entries[Len(entries)].is_dir

\* C24: a request opens a mount only when it starts its block, or after the
\* block before it has run its umount command and left nothing mounted; the
\* operations of a mutating action run inside its one block, on the yielded
\* root and before the umount command; the rebuild and the listing mount only
\* after the action's block.
C24_Theorem ==
    [][/\ (pc' = "mount" /\ pc # "mount") =>
            \/ pc = "idle" /\ phase' = IF req'.op = "list" THEN "list" ELSE "main"
            \/ /\ pc = "after" /\ phase' \in {"refresh", "list"}
               /\ phase \in {"main", "refresh"} /\ phase' # phase
               /\ mnt.umounts = 1 /\ ~mnt.mounted
       /\ (pc = "body" /\ (vault' # vault \/ mnt'.stray # mnt.stray)) =>
            /\ phase = "main" /\ req.op \in {"upload", "mkdir", "move", "copy", "delete"}
            /\ mnt.yielded /\ mnt.umounts = 0
            /\ pc' = "unmount"
      ]_vars

\* The rebuild after a batch of two entries has opened its mount; the batch
\* changed the vault.
C24_Witness ==
    /\ pc = "mount" /\ phase = "refresh"
    /\ req.op \in {"move", "copy", "delete"} /\ req.nsel = 2
    /\ mnt = Opened
    /\ vault \notin Fixtures

\* C25: the unlock subprocess a thread has started received the passphrase of
\* the session the thread opened the vault for.
C25_Claim ==
    \A t \in Threads : thr[t].pc = "spawned" => thr[t].child = thr[t].passphrase

\* C26: no step of an open() block whose body only reads (login's listing or
\* index build, a rebuild, a listing) changes the vault, its teardown after a
\* failed umount command included.
C26_Claim ==
    [][(phase \in {"refresh", "list"} \/ (phase = "main" /\ req.op = "login")) =>
           vault' = vault]_vars
====
